---- MODULE Spec2Model ----
(***************************************************************************)
(* Two-phase-commit coordinator chaincode (InitialChaincode.go).           *)
(* The ledger is one key/value map from string keys to marshalled bytes.   *)
(* An invocation touches the world in separate steps: it reads the ledger   *)
(* (GetState), it reads the clock (time.Now) and it writes the ledger      *)
(* (PutState).  makePeerDecision and queryFinalDecision read their key     *)
(* twice: once to see that something is stored (the existence check), and  *)
(* once for the record they go on with.  The code holds nothing between    *)
(* any two of these calls, so any step of another invocation and any       *)
(* passage of time may fall in between.  An invocation returns in the last *)
(* of its steps.  Every invocation carries its argument, so the            *)
(* argument-count error returns are not modelled; the ledger never fails a *)
(* GetState or a PutState.                                                 *)
(***************************************************************************)
EXTENDS Integers, Sequences, FiniteSets, Bags, TLC

(* ------------------------------ bounds ------------------------------- *)
MaxTime == 10         \* the clock stops advancing once it reaches MaxTime (minutes)
TickMinutes == 5      \* minutes that pass between two observations of the clock
MaxRegistered == 2    \* most registerPeer invocations that write
MaxInFlight == 2      \* most invocations in flight at a time
MaxCalls == 4         \* most invocations in one execution

(* --------------------------- program constants ----------------------- *)
PendingState == "P"
CommitState == "C"
AbortState == "A"
RegisteredPeersKey == "RegisteredPeers"
ExpireMinutes == 5

(* ------------------------------ inputs ------------------------------- *)
PeerIDs == {"p1", "p2"}
UnknownPeer == "p9"
UnknownFunctions == {"deleteTransaction"}
TxIDs == {"tx1"}
Keys == TxIDs \cup {RegisteredPeersKey}
Decisions == {PendingState, CommitState, AbortState}

\* store, now: the ledger and the clock.  calls: the bag of invocations in
\* flight, which have read the ledger and have yet to read the clock or to
\* write.  last: the invocation that returned in the latest step, if one did.
\* started: the number of invocations so far.  registered: the ids whose
\* registerPeer returned success so far.  atomic: no invocation has so far
\* read the ledger while another one was in flight.  eval: one evaluation of
\* checkPeersVoted on a given transaction.
VARIABLES store, now, last, started, registered, calls, atomic, eval
vars == <<store, now, last, started, registered, calls, atomic, eval>>

(* --------------------------- JSON encoding --------------------------- *)
\* GetState returns nil for a key that holds nothing.
NilBytes == [kind |-> "nil"]

\* The zero value of time.Time: before every value of the clock.
ZeroTime == -1

\* The zero value of the Transaction struct.
ZeroTransaction ==
    [TransactionID |-> "", InvolvedPeers |-> <<>>,
     FinalDecision |-> "", TransactionExpire |-> ZeroTime]

\* json.Marshal of a Transaction: a JSON object, fields in struct order.
MarshalTransaction(t) ==
    [kind |-> "object",
     val |-> <<t.TransactionID,
               [i \in 1..Len(t.InvolvedPeers) |->
                   <<t.InvolvedPeers[i].PeerID, t.InvolvedPeers[i].PeerDecision>>],
               t.FinalDecision,
               t.TransactionExpire>>]

\* json.Unmarshal into a Transaction: every JSON object decodes, the fields
\* the struct names are taken and the others ignored; anything else is an
\* error.
UnmarshalTransaction(b) ==
    IF b.kind = "object"
    THEN [err |-> FALSE,
          val |-> [TransactionID |-> b.val[1],
                   InvolvedPeers |->
                       [i \in 1..Len(b.val[2]) |->
                           [PeerID |-> b.val[2][i][1], PeerDecision |-> b.val[2][i][2]]],
                   FinalDecision |-> b.val[3],
                   TransactionExpire |-> b.val[4]]]
    ELSE IF b.kind = "request"
    THEN [err |-> FALSE, val |-> [ZeroTransaction EXCEPT !.TransactionID = b.val[1]]]
    ELSE IF b.kind = "decision"
    THEN [err |-> FALSE,
          val |-> [ZeroTransaction EXCEPT !.TransactionID = b.val[1],
                                          !.FinalDecision = b.val[2]]]
    ELSE [err |-> TRUE, val |-> ZeroTransaction]

\* json.Marshal of a []PeerModel: a JSON array of one-field objects.
MarshalPeers(ps) ==
    [kind |-> "array", val |-> [i \in 1..Len(ps) |-> <<ps[i].PeerID>>]]

\* json.Unmarshal into a []PeerModel: only a JSON array decodes.
UnmarshalPeers(b) ==
    IF b.kind = "array"
    THEN [err |-> FALSE, val |-> [i \in 1..Len(b.val) |-> [PeerID |-> b.val[i][1]]]]
    ELSE [err |-> TRUE, val |-> <<>>]

\* json.Marshal of a PeerUpdateRequestModel, as the caller sends it.
MarshalRequest(id, peer, decision) ==
    [kind |-> "request", val |-> <<id, peer, decision>>]

\* json.Unmarshal into a PeerUpdateRequestModel: every JSON object decodes;
\* of a marshalled Transaction or final decision only TransactionID is a
\* field of the request.
UnmarshalRequest(b) ==
    IF b.kind = "request"
    THEN [err |-> FALSE,
          val |-> [TransactionID |-> b.val[1], PeerID |-> b.val[2], Decision |-> b.val[3]]]
    ELSE IF b.kind \in {"object", "decision"}
    THEN [err |-> FALSE,
          val |-> [TransactionID |-> b.val[1], PeerID |-> "", Decision |-> ""]]
    ELSE [err |-> TRUE, val |-> [TransactionID |-> "", PeerID |-> "", Decision |-> ""]]

\* json.Marshal of a FinalDecisionResponseModel.
MarshalFinalDecision(id, fd) ==
    [kind |-> "decision", val |-> <<id, fd>>]

(* ------------------------------ the shim ----------------------------- *)
Success(payload) == [status |-> "OK", message |-> "", payload |-> payload]
Error(msg) == [status |-> "ERROR", message |-> msg, payload |-> NilBytes]

GetState(st, key) == IF key \in DOMAIN st THEN st[key] ELSE NilBytes
PutState(st, key, bytes) == [st EXCEPT ![key] = bytes]

\* The outcome of a handler that returns without a PutState: the ledger as
\* it was and the response.  clock: the handler read the clock on its way.
Outcome(st, resp) == [store |-> st, resp |-> resp, put |-> FALSE, clock |-> FALSE]

\* The outcome of a handler that reaches its PutState: the ledger it read with
\* the key replaced, and the response it returns afterwards.
Stored(st, key, bytes, resp) ==
    [store |-> PutState(st, key, bytes), resp |-> resp, put |-> TRUE, clock |-> FALSE]

\* The same outcome, of a handler that read the clock iff read.
Timed(out, read) == [out EXCEPT !.clock = read]

(* ----------------------------- handlers ------------------------------ *)
\* (variant: the check never reports an existing record)
checkTransactionIDExistence_never(st, transactionID) == FALSE

\* checkTransactionIDExistence: true iff the ledger holds something at the key.
checkTransactionIDExistence(st, transactionID) ==
    IF GetState(st, transactionID) = NilBytes THEN FALSE ELSE TRUE

\* queryTransaction: the raw stored bytes, or an error when nothing is stored.
queryTransaction(st, id) ==
    LET trans == GetState(st, id) IN
    IF trans = NilBytes
    THEN Outcome(st, Error("Transaction does not exist"))
    ELSE Outcome(st, Success(trans))

\* (variant: the submitted decisions are stored as they came)
ResetPeers_verbatim(peers) == peers

\* The peers of a submitted transaction, every decision reset to Pending.
ResetPeers(peers) ==
    [index \in 1..Len(peers) |-> [peers[index] EXCEPT !.PeerDecision = PendingState]]

\* (variant: only the empty id is refused)
invalidOrExistingID_emptyOnly(st, transactionID) == transactionID = ""

\* The id test of addTransaction: empty, or already on the ledger.
invalidOrExistingID(st, transactionID) ==
    transactionID = "" \/ checkTransactionIDExistence(st, transactionID)

\* (variant: an empty peer list is let through)
noPeersInvolved_unchecked(peers) == FALSE

\* The peer-list test of addTransaction.
noPeersInvolved(peers) == Len(peers) <= 0

\* addTransaction at clock value t.
addTransaction(st, arg, t) ==
    LET parsed == UnmarshalTransaction(arg)
        currentTrans == parsed.val
    IN
    IF parsed.err
    THEN Outcome(st, Error("Invalid parameter"))
    ELSE IF invalidOrExistingID(st, currentTrans.TransactionID)
    THEN Outcome(st, Error("Invalid or already existent transaction id"))
    ELSE IF noPeersInvolved(currentTrans.InvolvedPeers)
    THEN Outcome(st, Error("There are no peers involved in the transaction"))
    ELSE
        LET normalised ==
                [currentTrans EXCEPT
                    !.FinalDecision = PendingState,
                    !.TransactionExpire = t + ExpireMinutes,
                    !.InvolvedPeers = ResetPeers(currentTrans.InvolvedPeers)]
        IN Timed(Stored(st, currentTrans.TransactionID,
                        MarshalTransaction(normalised), Success(NilBytes)),
                 TRUE)

\* (variant: a peer that has voted Commit lets the loop go on to the next peer)
checkPeersVoted_continue(tran, t) ==
    IF Len(tran.InvolvedPeers) <= 0
    THEN [decision |-> FALSE, state |-> ""]
    ELSE IF \E i \in 1..Len(tran.InvolvedPeers) :
                \/ tran.InvolvedPeers[i].PeerDecision = AbortState
                \/ /\ tran.InvolvedPeers[i].PeerDecision \in {"", PendingState}
                   /\ t > tran.TransactionExpire
    THEN [decision |-> TRUE, state |-> AbortState]
    ELSE [decision |-> TRUE, state |-> CommitState]

\* (variant: the rule over all peers: any Abort, then any Pending, then Commit)
checkPeersVoted_allPeers(tran, t) ==
    IF Len(tran.InvolvedPeers) <= 0
    THEN [decision |-> FALSE, state |-> ""]
    ELSE IF \E i \in 1..Len(tran.InvolvedPeers) :
                tran.InvolvedPeers[i].PeerDecision = AbortState
    THEN [decision |-> TRUE, state |-> AbortState]
    ELSE IF \E i \in 1..Len(tran.InvolvedPeers) :
                tran.InvolvedPeers[i].PeerDecision \in {"", PendingState}
    THEN IF t > tran.TransactionExpire
         THEN [decision |-> TRUE, state |-> AbortState]
         ELSE [decision |-> FALSE, state |-> PendingState]
    ELSE [decision |-> TRUE, state |-> CommitState]

\* (variant: a Pending first peer aborts without the deadline being looked at)
checkPeersVoted_noDeadline(tran, t) ==
    IF Len(tran.InvolvedPeers) <= 0
    THEN [decision |-> FALSE, state |-> ""]
    ELSE IF tran.InvolvedPeers[1].PeerDecision \in {AbortState, "", PendingState}
    THEN [decision |-> TRUE, state |-> AbortState]
    ELSE [decision |-> FALSE, state |-> PendingState]

\* Whether checkPeersVoted reads the clock: the deadline test is only reached,
\* and its time.Now() only evaluated, for a first peer that holds no vote.
checkPeersVotedReadsClock(tran) ==
    /\ Len(tran.InvolvedPeers) > 0
    /\ ~(tran.InvolvedPeers[1].PeerDecision # ""
         /\ tran.InvolvedPeers[1].PeerDecision = AbortState)
    /\ (tran.InvolvedPeers[1].PeerDecision = ""
        \/ tran.InvolvedPeers[1].PeerDecision = PendingState)

\* checkPeersVoted at clock value t: every branch of the loop body returns,
\* so only the first peer of the list is ever looked at.
checkPeersVoted(tran, t) ==
    IF Len(tran.InvolvedPeers) <= 0
    THEN [decision |-> FALSE, state |-> ""]
    ELSE
        LET peer == tran.InvolvedPeers[1] IN
        IF peer.PeerDecision # "" /\ peer.PeerDecision = AbortState
        THEN [decision |-> TRUE, state |-> AbortState]
        ELSE IF (peer.PeerDecision = "" \/ peer.PeerDecision = PendingState)
                /\ t > tran.TransactionExpire
        THEN [decision |-> TRUE, state |-> AbortState]
        ELSE [decision |-> FALSE, state |-> PendingState]

\* (variant: the id comparison of the loop is inverted)
MatchingPeers_inverted(peers, peerID) ==
    {index \in 1..Len(peers) : peers[index].PeerID # peerID}

\* The indexes of the peers of a list that carry the given id.
MatchingPeers(peers, peerID) ==
    {index \in 1..Len(peers) : peers[index].PeerID = peerID}

\* The first such index: where the update loop stops.
FirstMatch(peers, peerID) ==
    CHOOSE index \in MatchingPeers(peers, peerID) :
        \A other \in MatchingPeers(peers, peerID) : index <= other

\* (variant: only a Commit counts as already decided)
alreadyDecided_commitOnly(transaction) == transaction.FinalDecision = CommitState

\* The early return of makePeerDecision: the stored decision is final.
alreadyDecided(transaction) ==
    transaction.FinalDecision # "" /\ transaction.FinalDecision # PendingState

\* (variant: the Abort vote and the Abort decision are written to the ledger)
makePeerDecision_persistAbort(found, st, arg, t) ==
    LET parsed == UnmarshalRequest(arg)
        currentTrans == parsed.val
        transByte == GetState(st, currentTrans.TransactionID)
        decoded == UnmarshalTransaction(transByte)
        transaction == decoded.val
    IN
    IF parsed.err
    THEN Outcome(st, Error("Invalid parameter"))
    ELSE IF currentTrans.TransactionID = "" \/ ~found
    THEN Outcome(st, Error("Invalid transactionId"))
    ELSE IF transByte = NilBytes
    THEN Outcome(st, Error("Could not get transaction from persistent state"))
    ELSE IF decoded.err
    THEN Outcome(st, Error("Internal error with unmarshaling of data"))
    ELSE IF alreadyDecided(transaction)
    THEN Outcome(st, Success(NilBytes))
    ELSE IF Len(transaction.InvolvedPeers) <= 0
    THEN Outcome(st, Error("Invalid number of peers for transaction"))
    ELSE IF MatchingPeers(transaction.InvolvedPeers, currentTrans.PeerID) = {}
    THEN Outcome(st, Error("Peer could not be found"))
    ELSE
        LET index == FirstMatch(transaction.InvolvedPeers, currentTrans.PeerID)
            updated == [transaction EXCEPT
                           !.InvolvedPeers[index].PeerDecision = currentTrans.Decision]
            voted == checkPeersVoted(updated, t)
            final == IF currentTrans.Decision = AbortState
                     THEN [updated EXCEPT !.FinalDecision = AbortState]
                     ELSE IF voted.decision
                     THEN [updated EXCEPT !.FinalDecision = voted.state]
                     ELSE updated
        IN Timed(Stored(st, final.TransactionID, MarshalTransaction(final),
                        Success(NilBytes)),
                 currentTrans.Decision # AbortState
                 /\ checkPeersVotedReadsClock(updated))

\* makePeerDecision at clock value t.  found: what the existence check
\* answered on the ledger as it was then; st: the ledger at the GetState of
\* the record.
makePeerDecision(found, st, arg, t) ==
    LET parsed == UnmarshalRequest(arg)
        currentTrans == parsed.val
        transByte == GetState(st, currentTrans.TransactionID)
        decoded == UnmarshalTransaction(transByte)
        transaction == decoded.val
    IN
    IF parsed.err
    THEN Outcome(st, Error("Invalid parameter"))
    ELSE IF currentTrans.TransactionID = "" \/ ~found
    THEN Outcome(st, Error("Invalid transactionId"))
    ELSE IF transByte = NilBytes
    THEN Outcome(st, Error("Could not get transaction from persistent state"))
    ELSE IF decoded.err
    THEN Outcome(st, Error("Internal error with unmarshaling of data"))
    ELSE IF alreadyDecided(transaction)
    THEN Outcome(st, Success(NilBytes))
    ELSE IF Len(transaction.InvolvedPeers) <= 0
    THEN Outcome(st, Error("Invalid number of peers for transaction"))
    ELSE IF MatchingPeers(transaction.InvolvedPeers, currentTrans.PeerID) = {}
    THEN Outcome(st, Error("Peer could not be found"))
    ELSE IF currentTrans.Decision = AbortState
    THEN \* FinalDecision is set on the local copy only: no PutState on this path
         Outcome(st, Success(NilBytes))
    ELSE
        LET index == FirstMatch(transaction.InvolvedPeers, currentTrans.PeerID)
            updated == [transaction EXCEPT
                           !.InvolvedPeers[index].PeerDecision = currentTrans.Decision]
            voted == checkPeersVoted(updated, t)
            final == IF voted.decision
                     THEN [updated EXCEPT !.FinalDecision = voted.state]
                     ELSE updated
        IN Timed(Stored(st, final.TransactionID, MarshalTransaction(final),
                        Success(NilBytes)),
                 checkPeersVotedReadsClock(updated))

\* queryFinalDecision at clock value t.  found: what the existence check
\* answered on the ledger as it was then; st: the ledger at the GetState of
\* the record.
queryFinalDecision(found, st, transID, t) ==
    LET trans == GetState(st, transID)
        decoded == UnmarshalTransaction(trans)
        scTrans == decoded.val
        voted == checkPeersVoted(scTrans, t)
        final == IF voted.decision
                 THEN [scTrans EXCEPT !.FinalDecision = voted.state]
                 ELSE scTrans
    IN
    IF ~found
    THEN Outcome(st, Error("Transaction does not exist"))
    ELSE IF decoded.err
    THEN Outcome(st, Error("Internal error while unmarshalling data"))
    ELSE IF scTrans.TransactionID = ""
    THEN Outcome(st, Error("Internal error while getting transaction"))
    ELSE IF voted.decision
    THEN Timed(Stored(st, scTrans.TransactionID, MarshalTransaction(final),
                      Success(MarshalFinalDecision(final.TransactionID,
                                                   final.FinalDecision))),
               checkPeersVotedReadsClock(scTrans))
    ELSE Timed(Outcome(st, Success(MarshalFinalDecision(final.TransactionID,
                                                        final.FinalDecision))),
               checkPeersVotedReadsClock(scTrans))

\* (variant: the list is started afresh on every call)
registerPeer_overwrite(st, peerID) ==
    Stored(st, RegisteredPeersKey, MarshalPeers(<<[PeerID |-> peerID]>>),
           Success(NilBytes))

\* registerPeer: append to the list under the registry key, or start it.
registerPeer(st, peerID) ==
    LET currentPeers == GetState(st, RegisteredPeersKey)
        decoded == UnmarshalPeers(currentPeers)
    IN
    IF currentPeers = NilBytes
    THEN Stored(st, RegisteredPeersKey, MarshalPeers(<<[PeerID |-> peerID]>>),
                Success(NilBytes))
    ELSE IF decoded.err
    THEN Outcome(st, Error("Error while retrieving data"))
    ELSE Stored(st, RegisteredPeersKey,
                MarshalPeers(Append(decoded.val, [PeerID |-> peerID])),
                Success(NilBytes))

\* getRegisteredPeers: whatever bytes the registry key holds (nil if nothing).
getRegisteredPeers(st) ==
    Outcome(st, Success(GetState(st, RegisteredPeersKey)))

(* ------------------------------ inputs ------------------------------- *)
\* What a caller may put in the fields addTransaction overwrites.
SubmittedExtras ==
    {[PeerDecision |-> "", FinalDecision |-> "", TransactionExpire |-> ZeroTime],
     [PeerDecision |-> AbortState, FinalDecision |-> CommitState, TransactionExpire |-> 1]}

SubmittedTransaction(id, ids, extra) ==
    [TransactionID |-> id,
     InvolvedPeers |-> [i \in 1..Len(ids) |->
                           [PeerID |-> ids[i], PeerDecision |-> extra.PeerDecision]],
     FinalDecision |-> extra.FinalDecision,
     TransactionExpire |-> extra.TransactionExpire]

\* args[0] of addTransaction: transactions of no, one and two peers with the
\* overwritten fields left out or filled in, and one JSON value of the wrong
\* shape.
AddTransactionArgs ==
    {MarshalTransaction(SubmittedTransaction(id, ids, extra)) :
        id \in TxIDs, ids \in {<<>>, <<"p1">>, <<"p1", "p2">>},
        extra \in {e \in SubmittedExtras : e.FinalDecision = ""}}
    \cup {MarshalTransaction(SubmittedTransaction(id, <<"p1", "p2">>, extra)) :
             id \in TxIDs, extra \in SubmittedExtras}
    \cup {MarshalTransaction(SubmittedTransaction(RegisteredPeersKey, <<"p1">>, extra)) :
             extra \in {e \in SubmittedExtras : e.FinalDecision = ""}}
    \cup {MarshalPeers(<<>>)}

\* args[0] of makePeerDecision: every decision by the involved peers, a vote
\* by a peer no transaction names, a request without a transaction id, and a
\* vote on whatever the registry key holds.
MakePeerDecisionArgs ==
    {MarshalRequest(id, peer, decision) :
        id \in TxIDs, peer \in PeerIDs, decision \in Decisions}
    \cup {MarshalRequest(id, UnknownPeer, CommitState) : id \in TxIDs}
    \cup {MarshalRequest("", "p1", CommitState)}
    \cup {MarshalRequest(RegisteredPeersKey, "p1", CommitState)}

\* A string argument, as the dispatcher hands it over.
StringArg(s) == [kind |-> "string", val |-> s]

(* --------------------------- state machine --------------------------- *)
\* The key an invocation reads and writes.
KeyOf(op, arg) ==
    CASE op = "addTransaction" -> UnmarshalTransaction(arg).val.TransactionID
      [] op = "makePeerDecision" -> UnmarshalRequest(arg).val.TransactionID
      [] op \in {"queryTransaction", "queryFinalDecision"} -> arg.val
      [] op \in {"registerPeer", "getRegisteredPeers"} -> RegisteredPeersKey
      [] OTHER -> ""

\* The invocation gets past its existence check, to the GetState of the
\* record: makePeerDecision and queryFinalDecision when the first GetState
\* finds something under the key.
ReadsRecord(op, arg, st) ==
    CASE op = "makePeerDecision" ->
             /\ ~UnmarshalRequest(arg).err
             /\ UnmarshalRequest(arg).val.TransactionID # ""
             /\ checkTransactionIDExistence(st, UnmarshalRequest(arg).val.TransactionID)
      [] op = "queryFinalDecision" -> checkTransactionIDExistence(st, arg.val)
      [] OTHER -> FALSE

\* Invoke: the handler of the function name, on a ledger and a clock value;
\* a name that is none of the six is answered with an error.  found is the
\* answer of the existence check of makePeerDecision and queryFinalDecision.
Invoke(op, arg, found, st, t) ==
    CASE op = "addTransaction" -> addTransaction(st, arg, t)
      [] op = "queryTransaction" -> queryTransaction(st, arg.val)
      [] op = "makePeerDecision" -> makePeerDecision(found, st, arg, t)
      [] op = "queryFinalDecision" -> queryFinalDecision(found, st, arg.val, t)
      [] op = "registerPeer" -> registerPeer(st, arg.val)
      [] op = "getRegisteredPeers" -> getRegisteredPeers(st)
      [] OTHER -> Outcome(st, Error("Invalid function"))

\* last: the invocation that returned in the latest step and its response.
\* "call": it returned in the step of a GetState (or before any); "clock":
\* in the step of its time.Now(); "write": in the step of its PutState.
Step(step, op, arg, resp) == [step |-> step, op |-> op, arg |-> arg, resp |-> resp]

\* The latest step was no return.
NoReturn == Step("none", "", NilBytes, Success(NilBytes))

\* No evaluation of checkPeersVoted asked for.
NoEval ==
    [tran |-> ZeroTransaction, done |-> FALSE,
     out |-> [decision |-> FALSE, state |-> ""]]

\* An invocation that has passed its existence check and has yet to make the
\* GetState of the record.
Checked(op, arg) ==
    [pc |-> "checked", op |-> op, arg |-> arg, key |-> KeyOf(op, arg),
     snap |-> NilBytes, clock |-> FALSE, t |-> 0,
     resp |-> Success(NilBytes), bytes |-> NilBytes]

\* An invocation that has made its GetState and has yet to read the clock:
\* what it read.
Reading(op, arg, st) ==
    [pc |-> "read", op |-> op, arg |-> arg, key |-> KeyOf(op, arg),
     snap |-> GetState(st, KeyOf(op, arg)), clock |-> FALSE, t |-> 0,
     resp |-> Success(NilBytes), bytes |-> NilBytes]

\* An invocation that has read and computed, and has yet to make its
\* PutState: what it read, the clock value if it read the clock, its response
\* and the bytes it is about to put.
Simulated(call, clock, t, out) ==
    [call EXCEPT !.pc = "simulated", !.clock = clock, !.t = t,
                 !.resp = out.resp, !.bytes = GetState(out.store, call.key)]

\* A ledger that holds what the invocation read under its key: all a handler
\* knows of the ledger once it has made its GetState.
SnapLedger(call) == [k \in Keys |-> IF k = call.key THEN call.snap ELSE NilBytes]

\* (variant: the write is recomputed from the ledger as it is when written)
commitWrite_rebased(st, call) ==
    Invoke(call.op, call.arg, TRUE, st, IF call.clock THEN call.t ELSE 0).store

\* The PutState of an invocation: the bytes it computed from what it read
\* replace whatever the key holds by now.
commitWrite(st, call) == PutState(st, call.key, call.bytes)

Init ==
    /\ store = [k \in Keys |-> NilBytes]
    /\ now = 0
    /\ last = NoReturn
    /\ started = 0
    /\ registered = <<>>
    /\ calls = EmptyBag
    /\ atomic = TRUE
    /\ eval = NoEval

NoneInFlight == calls = EmptyBag

\* One invocation more or less in flight.
Joined(call) == calls (+) SetToBag({call})
Left(call) == calls (-) SetToBag({call})

\* An invocation may begin while the execution has invocations left; one that
\* does not return in its first step needs room among those in flight.
CanStart(op, arg, out) ==
    /\ started < MaxCalls
    /\ (ReadsRecord(op, arg, store) \/ out.clock \/ out.put)
       => BagCardinality(calls) < MaxInFlight

\* The first step of an invocation whose handler, on the ledger as it is,
\* comes out as out.  An invocation that has passed its existence check is in
\* flight with the GetState of the record still to come, whatever the ledger
\* holds now.  Any other returns at once when it reads no clock and reaches
\* no PutState, and is in flight otherwise, with its clock read or its
\* PutState still to come.
Started(op, arg, out) ==
    IF ReadsRecord(op, arg, store)
    THEN Joined(Checked(op, arg))
    ELSE IF out.clock
    THEN Joined(Reading(op, arg, store))
    ELSE IF out.put
    THEN Joined(Simulated(Reading(op, arg, store), FALSE, 0, out))
    ELSE calls

Returned(op, arg, out) ==
    IF ReadsRecord(op, arg, store) \/ out.clock \/ out.put
    THEN NoReturn
    ELSE Step("call", op, arg, out.resp)

\* What the existence check of an invocation answers on the ledger as it is.
Found(op, arg) == checkTransactionIDExistence(store, KeyOf(op, arg))

AddTransaction ==
    \E arg \in AddTransactionArgs :
        LET out == Invoke("addTransaction", arg,
                          Found("addTransaction", arg), store, now) IN
        /\ CanStart("addTransaction", arg, out)
        /\ calls' = Started("addTransaction", arg, out)
        /\ last' = Returned("addTransaction", arg, out)
        /\ atomic' = (atomic /\ NoneInFlight)
        /\ started' = started + 1
        /\ UNCHANGED <<store, now, registered, eval>>

QueryTransaction ==
    \E id \in Keys \cup {""} :
        LET out == Invoke("queryTransaction", StringArg(id),
                          Found("queryTransaction", StringArg(id)), store, now) IN
        /\ CanStart("queryTransaction", StringArg(id), out)
        /\ calls' = Started("queryTransaction", StringArg(id), out)
        /\ last' = Returned("queryTransaction", StringArg(id), out)
        /\ atomic' = (atomic /\ NoneInFlight)
        /\ started' = started + 1
        /\ UNCHANGED <<store, now, registered, eval>>

MakePeerDecision ==
    \E arg \in MakePeerDecisionArgs :
        LET out == Invoke("makePeerDecision", arg,
                          Found("makePeerDecision", arg), store, now) IN
        /\ CanStart("makePeerDecision", arg, out)
        /\ calls' = Started("makePeerDecision", arg, out)
        /\ last' = Returned("makePeerDecision", arg, out)
        /\ atomic' = (atomic /\ NoneInFlight)
        /\ started' = started + 1
        /\ UNCHANGED <<store, now, registered, eval>>

QueryFinalDecision ==
    \E id \in Keys :
        LET out == Invoke("queryFinalDecision", StringArg(id),
                          Found("queryFinalDecision", StringArg(id)), store, now) IN
        /\ CanStart("queryFinalDecision", StringArg(id), out)
        /\ calls' = Started("queryFinalDecision", StringArg(id), out)
        /\ last' = Returned("queryFinalDecision", StringArg(id), out)
        /\ atomic' = (atomic /\ NoneInFlight)
        /\ started' = started + 1
        /\ UNCHANGED <<store, now, registered, eval>>

\* The registerPeer invocations in flight.
Registering == {call \in BagToSet(calls) : call.op = "registerPeer"}

RegisterPeer ==
    \E peerID \in PeerIDs :
        LET out == Invoke("registerPeer", StringArg(peerID),
                          Found("registerPeer", StringArg(peerID)), store, now) IN
        /\ Len(registered) + BagCardinality([call \in Registering |-> calls[call]])
           < MaxRegistered
        /\ CanStart("registerPeer", StringArg(peerID), out)
        /\ calls' = Started("registerPeer", StringArg(peerID), out)
        /\ last' = Returned("registerPeer", StringArg(peerID), out)
        /\ atomic' = (atomic /\ NoneInFlight)
        /\ started' = started + 1
        /\ UNCHANGED <<store, now, registered, eval>>

GetRegisteredPeers ==
    LET out == Invoke("getRegisteredPeers", NilBytes,
                          Found("getRegisteredPeers", NilBytes), store, now) IN
    /\ CanStart("getRegisteredPeers", NilBytes, out)
    /\ calls' = Started("getRegisteredPeers", NilBytes, out)
    /\ last' = Returned("getRegisteredPeers", NilBytes, out)
    /\ atomic' = (atomic /\ NoneInFlight)
    /\ started' = started + 1
    /\ UNCHANGED <<store, now, registered, eval>>

\* An invocation of a function name the dispatcher does not know.
InvalidFunction ==
    \E op \in UnknownFunctions :
        LET out == Invoke(op, NilBytes,
                          Found(op, NilBytes), store, now) IN
        /\ CanStart(op, NilBytes, out)
        /\ calls' = Started(op, NilBytes, out)
        /\ last' = Returned(op, NilBytes, out)
        /\ atomic' = (atomic /\ NoneInFlight)
        /\ started' = started + 1
        /\ UNCHANGED <<store, now, registered, eval>>

\* An invocation in flight that has passed its existence check makes the
\* GetState of the record and goes on from the ledger as it is now: to its
\* return, to its clock read or to its PutState.
ReadRecord ==
    \E call \in BagToSet(calls) :
        LET out == Invoke(call.op, call.arg, TRUE, store, now) IN
        /\ call.pc = "checked"
        /\ calls' = IF out.clock
                    THEN Left(call) (+) SetToBag({Reading(call.op, call.arg, store)})
                    ELSE IF out.put
                    THEN Left(call) (+) SetToBag({Simulated(Reading(call.op, call.arg, store),
                                                            FALSE, 0, out)})
                    ELSE Left(call)
        /\ last' = IF out.clock \/ out.put THEN NoReturn
                   ELSE Step("call", call.op, call.arg, out.resp)
        /\ UNCHANGED <<store, now, started, registered, atomic, eval>>

\* An invocation in flight reads the clock and goes on from what it read of
\* the ledger: to its PutState, or to its return when it has none.
TimeNow ==
    \E call \in BagToSet(calls) :
        LET out == Invoke(call.op, call.arg, TRUE, SnapLedger(call), now) IN
        /\ call.pc = "read"
        /\ calls' = IF out.put
                    THEN Left(call) (+) SetToBag({Simulated(call, TRUE, now, out)})
                    ELSE Left(call)
        /\ last' = IF out.put THEN NoReturn
                   ELSE Step("clock", call.op, call.arg, out.resp)
        /\ UNCHANGED <<store, now, started, registered, atomic, eval>>

\* An invocation in flight makes its PutState and returns.
Return ==
    \E call \in BagToSet(calls) :
        /\ call.pc = "simulated"
        /\ store' = commitWrite(store, call)
        /\ calls' = Left(call)
        /\ last' = Step("write", call.op, call.arg, call.resp)
        /\ registered' = IF call.op = "registerPeer" /\ call.resp.status = "OK"
                         THEN Append(registered, call.arg.val)
                         ELSE registered
        /\ UNCHANGED <<now, started, atomic, eval>>

\* The wall clock advances.
Tick ==
    /\ now < MaxTime
    /\ now' = now + TickMinutes
    /\ last' = NoReturn
    /\ UNCHANGED <<store, started, registered, calls, atomic, eval>>

\* Invoke dispatches the six functions and refuses any other name; the
\* invocations in flight take their later steps; time passes.
Next ==
    \/ AddTransaction
    \/ QueryTransaction
    \/ MakePeerDecision
    \/ QueryFinalDecision
    \/ RegisterPeer
    \/ GetRegisteredPeers
    \/ InvalidFunction
    \/ ReadRecord
    \/ TimeNow
    \/ Return
    \/ Tick

Spec == Init /\ [][Next]_vars

(* ------------------------- reading the state ------------------------- *)
\* The bytes are a marshalled transaction record.
IsRecord(bytes) == bytes.kind = "object"

\* The key holds a transaction record.
IsTx(st, id) == IsRecord(GetState(st, id))

\* The transaction stored under a key that holds one.
StoredTx(st, id) == UnmarshalTransaction(GetState(st, id)).val

Terminal(t) == t.FinalDecision \in {CommitState, AbortState}
Pending(t) == t.FinalDecision \in {"", PendingState}

PeerIDsOf(t) == {t.InvolvedPeers[i].PeerID : i \in 1..Len(t.InvolvedPeers)}

\* The request of a makePeerDecision, the transaction of an addTransaction.
Req(call) == UnmarshalRequest(call.arg).val
Sub(call) == UnmarshalTransaction(call.arg).val

\* The record an invocation in flight read.
SnapTx(call) == UnmarshalTransaction(call.snap).val

(* ------------------------------ claims ------------------------------- *)
\* The step is the first one of an invocation op(arg): its GetState read the
\* ledger as it is before the step.
ReadBy(op, arg) ==
    /\ started' # started
    /\ IF last' = NoReturn
       THEN \E call \in BagToSet(calls') :
                calls' = Joined(call) /\ call.op = op /\ call.arg = arg
       ELSE last'.op = op /\ last'.arg = arg

\* The step is the one in which an invocation of op returns; if it wrote, the
\* ledger after the step holds what it wrote.
Returns(op) == last'.op = op /\ last'.step \in {"call", "clock", "write"}

\* The step is the GetState of the record by the invocation in flight, which
\* has passed its existence check: it reads the ledger as it is before the
\* step, and returns or goes on to its clock read or its PutState.
Reads(call) ==
    /\ call \in BagToSet(calls)
    /\ call.pc = "checked"
    /\ started' = started
    /\ now' = now
    /\ \/ /\ calls' = Left(call)
          /\ last'.step = "call"
          /\ last'.op = call.op
          /\ last'.arg = call.arg
       \/ /\ last' = NoReturn
          /\ \E next \in BagToSet(calls') :
                 /\ next.pc \in {"read", "simulated"}
                 /\ next.op = call.op
                 /\ next.arg = call.arg
                 /\ calls' = Left(call) (+) SetToBag({next})

\* The step is the PutState and return of the invocation in flight.
Writes(call) ==
    /\ call \in BagToSet(calls)
    /\ call.pc = "simulated"
    /\ last'.step = "write"
    /\ calls' = Left(call)

\* C1 (as claimed, for invocations that do not overlap): a successful
\* makePeerDecision in which an involved peer votes Abort on a Pending
\* transaction leaves the stored final decision at Abort, and a stored Abort
\* stays Abort under every later step.
C1_AbortAbsorption ==
    [][ /\ ( /\ atomic'
             /\ Returns("makePeerDecision")
             /\ last'.resp.status = "OK"
             /\ Req(last').Decision = AbortState
             /\ Req(last').TransactionID \in TxIDs
             /\ IsTx(store, Req(last').TransactionID)
             /\ Pending(StoredTx(store, Req(last').TransactionID))
             /\ Req(last').PeerID \in PeerIDsOf(StoredTx(store, Req(last').TransactionID)) )
           => /\ IsTx(store', Req(last').TransactionID)
              /\ StoredTx(store', Req(last').TransactionID).FinalDecision = AbortState
        /\ \A id \in TxIDs :
              (atomic' /\ IsTx(store, id) /\ StoredTx(store, id).FinalDecision = AbortState)
              => (IsTx(store', id) /\ StoredTx(store', id).FinalDecision = AbortState)
      ]_vars

\* Some peer of the transaction has not voted.
SomePeerPending(t) ==
    \E i \in 1..Len(t.InvolvedPeers) : t.InvolvedPeers[i].PeerDecision \in {"", PendingState}

\* C2 (as claimed, for invocations that do not overlap): a queryFinalDecision
\* that returns past the deadline of a transaction with a peer still Pending
\* answers Abort, and the stored final decision is Abort afterwards.
C2_TimeoutForcesAbort ==
    [][ ( /\ atomic'
          /\ Returns("queryFinalDecision")
          /\ last'.arg.val \in TxIDs
          /\ IsTx(store, last'.arg.val)
          /\ SomePeerPending(StoredTx(store, last'.arg.val))
          /\ now > StoredTx(store, last'.arg.val).TransactionExpire )
        => /\ last'.resp = Success(MarshalFinalDecision(last'.arg.val, AbortState))
           /\ IsTx(store', last'.arg.val)
           /\ StoredTx(store', last'.arg.val).FinalDecision = AbortState
      ]_vars

\* C3: as long as no two invocations have overlapped, a stored final decision
\* of Commit or Abort is never changed by any step.
C3_FinalDecisionMonotonic ==
    [][ atomic'
        => \A id \in Keys :
               (IsTx(store, id) /\ Terminal(StoredTx(store, id)))
               => /\ IsTx(store', id)
                  /\ StoredTx(store', id).FinalDecision = StoredTx(store, id).FinalDecision
      ]_vars

\* No two invocations have overlapped, an addTransaction has just been tried
\* on the id of an aborted transaction (creation itself never stores Abort),
\* and the record is still Abort.
C3_Witness ==
    /\ atomic
    /\ last.op = "addTransaction"
    /\ last.step = "call"
    /\ IsTx(store, Sub(last).TransactionID)
    /\ StoredTx(store, Sub(last).TransactionID).FinalDecision = AbortState

\* C4: a makePeerDecision whose GetState of the record finds the stored
\* final decision of its transaction at Commit or Abort returns success in
\* that step, whatever its request, without a PutState: the whole ledger
\* stays as it was.
C4_IdempotentTerminal ==
    [][ \A call \in BagToSet(calls) :
            ( /\ Reads(call)
              /\ call.op = "makePeerDecision"
              /\ IsTx(store, call.key)
              /\ Terminal(StoredTx(store, call.key)) )
            => /\ last' = Step("call", "makePeerDecision", call.arg, Success(NilBytes))
               /\ store' = store
               /\ calls' = Left(call)
      ]_vars

\* A vote by a peer the transaction does not name has just succeeded, which
\* only the early return for a decided transaction allows.
C4_Witness ==
    /\ last.op = "makePeerDecision"
    /\ last.step = "call"
    /\ last.resp.status = "OK"
    /\ IsTx(store, Req(last).TransactionID)
    /\ Terminal(StoredTx(store, Req(last).TransactionID))
    /\ Req(last).PeerID = UnknownPeer
    /\ Req(last).Decision = CommitState

AllPeersCommit(t) ==
    \A i \in 1..Len(t.InvolvedPeers) : t.InvolvedPeers[i].PeerDecision = CommitState

\* C5 (as claimed, for invocations that do not overlap): when every peer of a
\* transaction has voted Commit before the deadline, the stored final decision
\* is Commit after the last vote or the next queryFinalDecision.
C5_CommitWhenAllVoted ==
    \A id \in TxIDs :
        ( /\ atomic
          /\ IsTx(store, id)
          /\ AllPeersCommit(StoredTx(store, id))
          /\ now <= StoredTx(store, id).TransactionExpire
          /\ last.step \in {"call", "clock", "write"}
          /\ \/ last.op = "makePeerDecision" /\ Req(last).TransactionID = id
                                              /\ last.resp.status = "OK"
             \/ last.op = "queryFinalDecision" /\ last.arg.val = id )
        => StoredTx(store, id).FinalDecision = CommitState

\* C6: an addTransaction that finds a transaction stored under its id returns
\* the id error in that step, whatever else it carries, without a PutState:
\* the ledger stays as it was.
C6_CreationUniqueness ==
    [][ \A arg \in AddTransactionArgs :
            ( /\ ReadBy("addTransaction", arg)
              /\ ~UnmarshalTransaction(arg).err
              /\ IsTx(store, KeyOf("addTransaction", arg)) )
            => /\ last' = Step("call", "addTransaction", arg,
                               Error("Invalid or already existent transaction id"))
               /\ store' = store
               /\ calls' = calls
      ]_vars

\* A second addTransaction on a stored id has just been refused although its
\* peer list differs from the stored one.
C6_Witness ==
    /\ last.op = "addTransaction"
    /\ last.step = "call"
    /\ last.resp = Error("Invalid or already existent transaction id")
    /\ IsTx(store, Sub(last).TransactionID)
    /\ Len(Sub(last).InvolvedPeers) # Len(StoredTx(store, Sub(last).TransactionID).InvolvedPeers)

\* C7: an addTransaction with an empty peer list fails in its first step and
\* writes nothing, and every stored transaction has at least one involved peer.
C7_NonEmptyPeers ==
    /\ [](\A id \in Keys : IsTx(store, id) => Len(StoredTx(store, id).InvolvedPeers) >= 1)
    /\ [][ \A arg \in AddTransactionArgs :
               ( /\ ReadBy("addTransaction", arg)
                 /\ Len(UnmarshalTransaction(arg).val.InvolvedPeers) = 0 )
               => /\ last'.step = "call"
                  /\ last'.resp.status = "ERROR"
                  /\ store' = store
                  /\ calls' = calls
         ]_vars

\* An addTransaction with a fresh id and no peers has just been refused for
\* its peer list, and nothing is stored under that id.
C7_Witness ==
    /\ last.op = "addTransaction"
    /\ last.step = "call"
    /\ last.resp = Error("There are no peers involved in the transaction")
    /\ Len(Sub(last).InvolvedPeers) = 0
    /\ GetState(store, Sub(last).TransactionID) = NilBytes

\* The record a successful addTransaction of sub that read the clock at t
\* must store.
CreatedRecord(sub, t) ==
    [TransactionID |-> sub.TransactionID,
     InvolvedPeers |-> [i \in 1..Len(sub.InvolvedPeers) |->
                           [PeerID |-> sub.InvolvedPeers[i].PeerID,
                            PeerDecision |-> PendingState]],
     FinalDecision |-> PendingState,
     TransactionExpire |-> t + ExpireMinutes]

\* C8: an addTransaction succeeds only by writing, and right after its write
\* the stored record is Pending, every peer is Pending and the deadline is the
\* clock value the invocation read plus five minutes, whatever the submitted
\* values; queryTransaction returns that record.
C8_CreationNormalises ==
    [][ /\ (Returns("addTransaction") /\ last'.resp.status = "OK")
           => last'.step = "write"
        /\ \A call \in BagToSet(calls) :
              (Writes(call) /\ call.op = "addTransaction")
              => LET sub == Sub(call)
                     created == CreatedRecord(sub, call.t)
                 IN /\ call.clock
                    /\ call.resp = Success(NilBytes)
                    /\ IsTx(store', sub.TransactionID)
                    /\ StoredTx(store', sub.TransactionID) = created
                    /\ queryTransaction(store', sub.TransactionID).resp.status = "OK"
                    /\ UnmarshalTransaction(
                           queryTransaction(store', sub.TransactionID).resp.payload)
                       = [err |-> FALSE, val |-> created]
      ]_vars

\* A transaction submitted with FinalDecision Commit, peers at Abort and its
\* own expiry has just been created, and is stored Pending.
C8_Witness ==
    /\ last.op = "addTransaction"
    /\ last.step = "write"
    /\ last.resp.status = "OK"
    /\ Sub(last).FinalDecision = CommitState
    /\ Len(Sub(last).InvolvedPeers) = 2
    /\ Sub(last).InvolvedPeers[1].PeerDecision = AbortState
    /\ \E t \in 0..now :
           StoredTx(store, Sub(last).TransactionID) = CreatedRecord(Sub(last), t)

\* C9 (as claimed): a makePeerDecision whose GetState of the record finds a
\* transaction that does not name its peer fails with the peer error and leaves the ledger as it was, in
\* every state of the transaction.
C9_UnknownPeerAlwaysFails ==
    [][ \A call \in BagToSet(calls) :
            ( /\ Reads(call)
              /\ call.op = "makePeerDecision"
              /\ IsTx(store, call.key)
              /\ Req(call).PeerID \notin PeerIDsOf(StoredTx(store, call.key)) )
            => /\ last'.resp = Error("Peer could not be found")
               /\ store' = store
      ]_vars

\* C9 (amended): such a call returns in the step of that GetState and leaves
\* the ledger as it was; it fails with the peer error while the stored final
\* decision is Pending, and succeeds once the stored final decision is Commit
\* or Abort.
C9_UnknownPeer ==
    [][ \A call \in BagToSet(calls) :
            ( /\ Reads(call)
              /\ call.op = "makePeerDecision"
              /\ IsTx(store, call.key)
              /\ Req(call).PeerID \notin PeerIDsOf(StoredTx(store, call.key)) )
            => /\ last'.step = "call"
               /\ last'.op = "makePeerDecision"
               /\ last'.arg = call.arg
               /\ store' = store
               /\ calls' = Left(call)
               /\ Pending(StoredTx(store, call.key))
                  => last'.resp = Error("Peer could not be found")
               /\ Terminal(StoredTx(store, call.key))
                  => last'.resp = Success(NilBytes)
      ]_vars

\* A vote by a peer the Pending transaction does not name has just been
\* refused with the peer error.
C9_Witness ==
    /\ last.op = "makePeerDecision"
    /\ last.step = "call"
    /\ last.resp = Error("Peer could not be found")
    /\ IsTx(store, Req(last).TransactionID)
    /\ Pending(StoredTx(store, Req(last).TransactionID))
    /\ Req(last).PeerID \notin PeerIDsOf(StoredTx(store, Req(last).TransactionID))

\* The registry bytes for a sequence of peer ids.
RegistryOf(ids) == MarshalPeers([i \in 1..Len(ids) |-> [PeerID |-> ids[i]]])

\* C10: as long as no two invocations have overlapped, getRegisteredPeers
\* returns the ids of the registerPeer calls that returned success so far, in
\* call order and with duplicates; before the first of them the registry key
\* holds no list.
C10_RegistryAccumulation ==
    atomic
    => /\ registered # <<>>
          => getRegisteredPeers(store).resp = Success(RegistryOf(registered))
       /\ registered = <<>>
          => GetState(store, RegisteredPeersKey).kind # "array"

\* Two registrations that did not overlap, the later id sorting first, have
\* just been listed.
C10_Witness ==
    /\ atomic
    /\ last.op = "getRegisteredPeers"
    /\ registered = <<"p2", "p1">>
    /\ last.resp.payload = RegistryOf(<<"p2", "p1">>)

\* C11 (as claimed, for invocations that do not overlap): a successful
\* makePeerDecision on a transaction whose stored final decision is Pending
\* leaves the first peer with the given id at the submitted decision, Commit
\* or Abort alike, and every other peer as it was.
C11_VotePersisted ==
    [][ ( /\ atomic'
          /\ Returns("makePeerDecision")
          /\ last'.resp.status = "OK"
          /\ Req(last').TransactionID \in TxIDs
          /\ IsTx(store, Req(last').TransactionID)
          /\ Pending(StoredTx(store, Req(last').TransactionID))
          /\ MatchingPeers(StoredTx(store, Req(last').TransactionID).InvolvedPeers,
                           Req(last').PeerID) # {} )
        => LET old == StoredTx(store, Req(last').TransactionID).InvolvedPeers
               new == StoredTx(store', Req(last').TransactionID).InvolvedPeers
               index == FirstMatch(old, Req(last').PeerID)
           IN /\ IsTx(store', Req(last').TransactionID)
              /\ Len(new) = Len(old)
              /\ new[index].PeerDecision = Req(last').Decision
              /\ \A other \in 1..Len(old) : other # index => new[other] = old[other]
      ]_vars

\* The record the invocation read with the decision of the first peer of the
\* given id replaced.
Voted(t, peerID, decision) ==
    [t EXCEPT !.InvolvedPeers[FirstMatch(t.InvolvedPeers, peerID)].PeerDecision = decision]

\* Every peer of the record is still Pending and so is the record.
AllPending(t) ==
    /\ t.FinalDecision = PendingState
    /\ \A i \in 1..Len(t.InvolvedPeers) : t.InvolvedPeers[i].PeerDecision = PendingState

\* A Commit vote of one peer has just been written and has returned success,
\* while a Commit vote of another peer, which read the same record with
\* everybody Pending, has its PutState still to come.
LostUpdateAhead(call) ==
    /\ call \in BagToSet(calls)
    /\ call.pc = "simulated"
    /\ call.op = "makePeerDecision"
    /\ Req(call).Decision = CommitState
    /\ IsRecord(call.snap)
    /\ AllPending(SnapTx(call))
    /\ Req(call).PeerID \in PeerIDsOf(SnapTx(call))
    /\ last.step = "write"
    /\ last.op = "makePeerDecision"
    /\ last.resp.status = "OK"
    /\ Req(last).Decision = CommitState
    /\ Req(last).TransactionID = call.key
    /\ Req(last).PeerID \in PeerIDsOf(SnapTx(call))
    /\ Req(last).PeerID # Req(call).PeerID
    /\ IsTx(store, call.key)
    /\ StoredTx(store, call.key).InvolvedPeers
       = Voted(SnapTx(call), Req(last).PeerID, CommitState).InvolvedPeers

\* C13: when two makePeerDecision calls by different peers have read the same
\* record with everybody Pending before either wrote, both return success and
\* the second PutState leaves a record with the second vote only: the peer of
\* the first vote is Pending again.
C13_LostUpdate ==
    [][ \A call \in BagToSet(calls) :
            (LostUpdateAhead(call) /\ Writes(call))
            => /\ last'.resp.status = "OK"
               /\ IsTx(store', call.key)
               /\ StoredTx(store', call.key).InvolvedPeers
                  = Voted(SnapTx(call), Req(call).PeerID, CommitState).InvolvedPeers
      ]_vars

\* p1's Commit has been written and has returned success, and p2's Commit,
\* computed from the record both read, is about to be put: it carries p1 as
\* Pending.
C13_Witness ==
    \E call \in BagToSet(calls) :
        /\ LostUpdateAhead(call)
        /\ Req(last).PeerID = "p1"
        /\ Req(call).PeerID = "p2"
        /\ StoredTx(store, call.key).InvolvedPeers[1].PeerDecision = CommitState
        /\ StoredTx(commitWrite(store, call), call.key).InvolvedPeers[1].PeerDecision
           = PendingState

\* C14 (as claimed): when a queryFinalDecision that read the clock past the
\* deadline has just stored Abort, the PutState of a makePeerDecision that
\* read the record and the clock before does not take the stored final
\* decision back to Pending.
C14_AbortNeverOverwritten ==
    [][ \A call \in BagToSet(calls) :
            ( /\ Writes(call)
              /\ call.op = "makePeerDecision"
              /\ call.key \in TxIDs
              /\ last.step = "write"
              /\ last.op = "queryFinalDecision"
              /\ last.arg.val = call.key
              /\ IsTx(store, call.key)
              /\ StoredTx(store, call.key).FinalDecision = AbortState )
            => /\ IsTx(store', call.key)
               /\ StoredTx(store', call.key).FinalDecision = AbortState
      ]_vars

\* C15 (as claimed, for invocations that do not overlap): once a peer's
\* stored decision is no longer Pending, no makePeerDecision changes it.
C15_PeerDecidesOnce ==
    [][ \A id \in TxIDs :
            ( /\ atomic'
              /\ Returns("makePeerDecision")
              /\ IsTx(store, id)
              /\ IsTx(store', id)
              /\ Len(StoredTx(store', id).InvolvedPeers)
                 = Len(StoredTx(store, id).InvolvedPeers) )
            => \A i \in 1..Len(StoredTx(store, id).InvolvedPeers) :
                   StoredTx(store, id).InvolvedPeers[i].PeerDecision \notin {"", PendingState}
                   => StoredTx(store', id).InvolvedPeers[i].PeerDecision
                      = StoredTx(store, id).InvolvedPeers[i].PeerDecision
      ]_vars

\* C16: no stored transaction with two or more peers has the final decision
\* Commit.
C16_MultiPeerNeverCommits ==
    \A id \in Keys :
        (IsTx(store, id) /\ Len(StoredTx(store, id).InvolvedPeers) >= 2)
        => StoredTx(store, id).FinalDecision # CommitState

\* Both peers of a two-peer transaction have voted Commit, queryFinalDecision
\* has just run on it, and it is still Pending.
C16_Witness ==
    /\ last.op = "queryFinalDecision"
    /\ last.step = "call"
    /\ last.resp.status = "OK"
    /\ IsTx(store, last.arg.val)
    /\ Len(StoredTx(store, last.arg.val).InvolvedPeers) = 2
    /\ AllPeersCommit(StoredTx(store, last.arg.val))
    /\ StoredTx(store, last.arg.val).FinalDecision = PendingState

\* The ids of the peers of a transaction, in list order.
PeerIDSeq(t) == [i \in 1..Len(t.InvolvedPeers) |-> t.InvolvedPeers[i].PeerID]

\* C17 (as claimed): no step changes the id of a transaction stored under a
\* transaction id, the ids and order of its peers, or its deadline: a step
\* that changes the bytes of a stored transaction leaves a transaction with
\* the same id, peer ids and deadline.
C17_FixedPartImmutable ==
    [][ \A id \in TxIDs :
            (IsTx(store, id) /\ store'[id] # store[id])
            => /\ IsTx(store', id)
               /\ StoredTx(store', id).TransactionID = StoredTx(store, id).TransactionID
               /\ PeerIDSeq(StoredTx(store', id)) = PeerIDSeq(StoredTx(store, id))
               /\ StoredTx(store', id).TransactionExpire
                  = StoredTx(store, id).TransactionExpire
      ]_vars

\* C18: the passage of time, queryTransaction and getRegisteredPeers never
\* change the ledger (nor any invocation in flight); the final decision of a
\* stored Pending transaction, under any key and whether or not its deadline
\* has passed, is only changed by the PutState of a makePeerDecision or
\* queryFinalDecision on it that read the clock past the deadline of the
\* record it read; a queryFinalDecision whose evaluation is not decided
\* returns without a PutState, and every PutState of a queryFinalDecision
\* follows a decided evaluation.
C18_LazyTimeoutPureReads ==
    [][ /\ (now' # now \/ Returns("queryTransaction") \/ Returns("getRegisteredPeers"))
           => (store' = store /\ calls' = calls)
        /\ \A id \in Keys :
              ( /\ IsTx(store, id)
                /\ Pending(StoredTx(store, id))
                /\ IsTx(store', id)
                /\ ~Pending(StoredTx(store', id)) )
              => \E call \in BagToSet(calls) :
                     /\ Writes(call)
                     /\ call.op \in {"makePeerDecision", "queryFinalDecision"}
                     /\ call.key = id
                     /\ call.clock
                     /\ call.t > SnapTx(call).TransactionExpire
        /\ (Returns("queryFinalDecision") /\ last'.step \in {"call", "clock"})
           => store' = store
        /\ \A call \in BagToSet(calls) :
              (Writes(call) /\ call.op = "queryFinalDecision")
              => checkPeersVoted(SnapTx(call), call.t).decision
      ]_vars

\* The deadline of a stored transaction has passed, no peer has voted,
\* queryTransaction has just returned it, and it is still Pending.
C18_Witness ==
    /\ last.op = "queryTransaction"
    /\ last.resp.status = "OK"
    /\ IsTx(store, last.arg.val)
    /\ now > StoredTx(store, last.arg.val).TransactionExpire
    /\ AllPending(StoredTx(store, last.arg.val))
    /\ StoredTx(store, last.arg.val).FinalDecision = PendingState

\* C19: a stored final decision of Abort is only found past the deadline;
\* up to the deadline every stored transaction is Pending and no stored peer
\* decision is Abort.  (It holds whether or not invocations overlap.)
C19_AbortOnlyByTimeout ==
    \A id \in Keys :
        IsTx(store, id)
        => /\ StoredTx(store, id).FinalDecision = AbortState
              => now > StoredTx(store, id).TransactionExpire
           /\ now <= StoredTx(store, id).TransactionExpire
              => /\ StoredTx(store, id).FinalDecision = PendingState
                 /\ \A i \in 1..Len(StoredTx(store, id).InvolvedPeers) :
                        StoredTx(store, id).InvolvedPeers[i].PeerDecision # AbortState

\* No two invocations have overlapped, an involved peer has just voted Abort
\* before the deadline, the call succeeded, and the stored transaction is
\* still Pending.
C19_Witness ==
    /\ atomic
    /\ last.op = "makePeerDecision"
    /\ last.step = "call"
    /\ last.resp.status = "OK"
    /\ Req(last).Decision = AbortState
    /\ IsTx(store, Req(last).TransactionID)
    /\ Req(last).PeerID \in PeerIDsOf(StoredTx(store, Req(last).TransactionID))
    /\ now <= StoredTx(store, Req(last).TransactionID).TransactionExpire
    /\ StoredTx(store, Req(last).TransactionID).FinalDecision = PendingState

(* ------------------ checkPeersVoted as a function -------------------- *)
\* The decisions a Peer value can carry, the unset one included.
EvalDecisions == {"", PendingState, CommitState, AbortState}

\* Peer lists of one and of two peers, with every combination of decisions.
EvalPeerLists ==
    {<<[PeerID |-> "p1", PeerDecision |-> d1]>> : d1 \in EvalDecisions}
    \cup {<<[PeerID |-> "p1", PeerDecision |-> d1], [PeerID |-> "p2", PeerDecision |-> d2]>> :
             d1 \in EvalDecisions, d2 \in EvalDecisions}

\* Transactions created at time 0 with such a peer list.
EvalTransactions ==
    {[TransactionID |-> "tx1", InvolvedPeers |-> peers,
      FinalDecision |-> PendingState, TransactionExpire |-> ExpireMinutes] :
        peers \in EvalPeerLists}

\* Any such transaction, at any clock value up to MaxTime.
InitEval ==
    /\ store = [k \in Keys |-> NilBytes]
    /\ now \in 0..MaxTime
    /\ last = NoReturn
    /\ started = 0
    /\ registered = <<>>
    /\ calls = EmptyBag
    /\ atomic = TRUE
    /\ eval \in {[NoEval EXCEPT !.tran = tran] : tran \in EvalTransactions}

\* checkPeersVoted is applied to the transaction at the current clock value.
Evaluate ==
    /\ ~eval.done
    /\ eval' = [eval EXCEPT !.done = TRUE, !.out = checkPeersVoted(eval.tran, now)]
    /\ UNCHANGED <<store, now, last, started, registered, calls, atomic>>

NextEval == Evaluate

SpecEval == InitEval /\ [][NextEval]_vars

\* C12: on a non-empty peer list checkPeersVoted answers from the first peer
\* and the clock alone: (decided, Abort) when the first peer holds Abort,
\* (decided, Abort) when it is Pending or unset and the clock is past the
\* deadline, (not decided, Pending) otherwise; never (decided, Commit).
C12_LiteralEvaluationRule ==
    eval.done
    => LET first == eval.tran.InvolvedPeers[1].PeerDecision IN
       /\ first = AbortState
          => eval.out = [decision |-> TRUE, state |-> AbortState]
       /\ (first \in {"", PendingState} /\ now > eval.tran.TransactionExpire)
          => eval.out = [decision |-> TRUE, state |-> AbortState]
       /\ ~(first = AbortState
            \/ (first \in {"", PendingState} /\ now > eval.tran.TransactionExpire))
          => eval.out = [decision |-> FALSE, state |-> PendingState]
       /\ eval.out # [decision |-> TRUE, state |-> CommitState]

\* The first peer holds Commit, the second Abort, the deadline has passed,
\* and the evaluation came out not decided.
C12_Witness ==
    /\ eval.done
    /\ Len(eval.tran.InvolvedPeers) = 2
    /\ eval.tran.InvolvedPeers[1].PeerDecision = CommitState
    /\ eval.tran.InvolvedPeers[2].PeerDecision = AbortState
    /\ now > eval.tran.TransactionExpire
    /\ eval.out = [decision |-> FALSE, state |-> PendingState]
====
